---- MODULE Spec2Model ----
(***************************************************************************)
(* quantpak: the strategy framework (quantpak/strategies/base.py), the     *)
(* moving-average-crossover strategy (examples/basic_strategy_example.py)  *)
(* and the indicator functions it uses (quantpak/data/processors.py).      *)
(*                                                                         *)
(* Python values are modelled as tagged records so that None, numbers and  *)
(* NaN can be compared with each other:                                    *)
(*   None            PyNone                                                *)
(*   an int          PyInt(n)                                              *)
(*   a float         NaN, or Num(p, q) for the quotient p / q (q > 0)      *)
(*   a DataFrame     [columns |-> set of column names,                     *)
(*                    close   |-> the Close column, top to bottom]         *)
(*                   its index is the row position 0 .. n-1                *)
(*   a str           PyStr(s)                                              *)
(*   a call's outcome  Return(v) or Raise(exception class)                 *)
(* cache_dir is the content of the CacheManager's directory: a function    *)
(* from file names to file contents.                                       *)
(* Python positions are 0-based; iloc translates them.                     *)
(***************************************************************************)
EXTENDS Integers, Sequences, FiniteSets, TLC

VARIABLES name, parameters, signals, data, initialized, op, arg, result,
          cache_dir

strategy == <<name, parameters, signals, data, initialized>>
vars ==
  <<name, parameters, signals, data, initialized, op, arg, result, cache_dir>>

-----------------------------------------------------------------------------
(* Bounds of the model *)

MaxLen == 3
MaxPureLen == 5
MaxLifeWindow == 2
MaxWindow == 4
MaxBlob == 2

LifePrices == {10, 11}
PurePrices == {9, 10, 11}

-----------------------------------------------------------------------------
(* Python values *)

PyNone == [t |-> "None"]
PyInt(n) == [t |-> "int", v |-> n]
PyStr(str) == [t |-> "str", v |-> str]
NaN == [t |-> "nan"]
Num(p, q) == [t |-> "num", num |-> p, den |-> q]

\* the exception classes the code raises: update before initialize raises
\* ValueError (the state error of the strategy contract), and pandas refuses
\* a bad rolling window with ValueError too
StateError == "ValueError"
WindowError == "ValueError"

Return(v) == [kind |-> "return", value |-> v]
Raise(e) == [kind |-> "raise", exc |-> e]

OHLCV == {"Open", "High", "Low", "Close", "Volume"}
Frame(cols, closes) == [columns |-> cols, close |-> closes]

\* s.iloc[i]: a negative position counts from the end
iloc(s, i) == IF i < 0 THEN s[Len(s) + i + 1] ELSE s[i + 1]

\* float comparisons: every comparison with NaN is False
PyLt(a, b) == a.t = "num" /\ b.t = "num" /\ a.num * b.den < b.num * a.den
\* a variant of > that lets a tie pass
PyGt_orequal(a, b) == a.t = "num" /\ b.t = "num" /\ a.num * b.den >= b.num * a.den

PyGt(a, b) == a.t = "num" /\ b.t = "num" /\ a.num * b.den > b.num * a.den
\* a variant of <= that lets a tie fail
PyLe_strict(a, b) == a.t = "num" /\ b.t = "num" /\ a.num * b.den < b.num * a.den

PyLe(a, b) == a.t = "num" /\ b.t = "num" /\ a.num * b.den <= b.num * a.den
\* a variant of >= that was copied from <=
PyGe_flipped(a, b) == a.t = "num" /\ b.t = "num" /\ a.num * b.den <= b.num * a.den

PyGe(a, b) == a.t = "num" /\ b.t = "num" /\ a.num * b.den >= b.num * a.den

-----------------------------------------------------------------------------
(* quantpak/data/processors.py: TechnicalIndicators.sma                    *)
(* prices.rolling(window=window).mean(): a sliding sum over the fixed      *)
(* window, one observation added and the one leaving the window removed at *)
(* each step; min_periods defaults to the window, a position with fewer    *)
(* observations (or none) is NaN; a window that is not an integer >= 0 is  *)
(* refused with ValueError.                                                *)

\* a variant that never drops the first observation from the window
RECURSIVE RollSum_late(_, _, _)
RollSum_late(prices, window, i) ==
  IF i < 0 THEN 0
  ELSE RollSum_late(prices, window, i - 1) + iloc(prices, i)
         - (IF i - window > 0 THEN iloc(prices, i - window) ELSE 0)

RECURSIVE RollSum(_, _, _)
RollSum(prices, window, i) ==
  IF i < 0 THEN 0
  ELSE RollSum(prices, window, i - 1) + iloc(prices, i)
         - (IF i - window >= 0 THEN iloc(prices, i - window) ELSE 0)

RollObs(window, i) == IF i + 1 < window THEN i + 1 ELSE window

\* a variant that accepts a partly filled window (min_periods=1)
MinPeriods_one(window) == 1

MinPeriods(window) == window

RollMean(prices, window, i) ==
  LET nobs == RollObs(window, i)
  IN  IF nobs >= MinPeriods(window) /\ nobs > 0
      THEN Num(RollSum(prices, window, i), nobs)
      ELSE NaN

\* a variant that refuses a series shorter than its window
sma_strict(prices, window) ==
  IF window.t # "int" \/ window.v < 0 \/ Len(prices) < window.v
  THEN Raise(WindowError)
  ELSE Return([k \in 1..Len(prices) |-> RollMean(prices, window.v, k - 1)])

sma(prices, window) ==
  IF window.t # "int" \/ window.v < 0
  THEN Raise(WindowError)
  ELSE Return([k \in 1..Len(prices) |-> RollMean(prices, window.v, k - 1)])

-----------------------------------------------------------------------------
(* quantpak/data/processors.py: TechnicalIndicators.ema                    *)
(* prices.ewm(span=window).mean() with the library's default adjust=True:  *)
(* the weighted mean of the whole history, the observation i steps back    *)
(* weighing (1-a)^i with a = 2/(span+1), i.e. (span-1)^i / (span+1)^i.     *)
(* Numerator and denominator are kept scaled by (span+1)^t.  A span that   *)
(* is missing or below 1 is refused with ValueError.                       *)

RECURSIVE EwmNum(_, _, _)
EwmNum(prices, span, t) ==
  IF t < 0 THEN 0
  ELSE (span - 1) * EwmNum(prices, span, t - 1) + (span + 1)^t * iloc(prices, t)

RECURSIVE EwmDen(_, _)
EwmDen(span, t) ==
  IF t < 0 THEN 0
  ELSE (span - 1) * EwmDen(span, t - 1) + (span + 1)^t

ema(prices, window) ==
  IF window.t # "int" \/ window.v < 1
  THEN Raise(WindowError)
  ELSE Return([k \in 1..Len(prices) |->
                 Num(EwmNum(prices, window.v, k - 1), EwmDen(window.v, k - 1))])

-----------------------------------------------------------------------------
(* quantpak/data/processors.py: ReturnCalculator                           *)

\* a variant that divides the change by the current price
simple_returns_bycurrent(prices) ==
  [k \in 1..Len(prices) |->
     IF k = 1 THEN NaN ELSE Num(prices[k] - prices[k - 1], prices[k])]

\* prices.pct_change(): no value at the first position
simple_returns(prices) ==
  [k \in 1..Len(prices) |->
     IF k = 1 THEN NaN ELSE Num(prices[k] - prices[k - 1], prices[k - 1])]

PlusOne(x) == IF x.t = "nan" THEN NaN ELSE Num(x.num + x.den, x.den)
MinusOne(x) == IF x.t = "nan" THEN NaN ELSE Num(x.num - x.den, x.den)

\* the product of the values of s[1..k] that are not NaN
RECURSIVE ProdUpTo(_, _)
ProdUpTo(s, k) ==
  IF k = 0 THEN Num(1, 1)
  ELSE LET p == ProdUpTo(s, k - 1)
       IN  IF s[k].t = "nan" THEN p
           ELSE Num(p.num * s[k].num, p.den * s[k].den)

\* Series.cumprod(): NaN is skipped and stays NaN in its place
cumprod(s) ==
  [k \in 1..Len(s) |-> IF s[k].t = "nan" THEN NaN ELSE ProdUpTo(s, k)]

\* (1 + returns).cumprod() - 1
cumulative_returns(returns) ==
  LET grown == cumprod([k \in 1..Len(returns) |-> PlusOne(returns[k])])
  IN  [k \in 1..Len(returns) |-> MinusOne(grown[k])]

-----------------------------------------------------------------------------
(* quantpak/strategies/base.py: BaseStrategy                               *)
(* A method is an operator from the object (self) and its arguments to the *)
(* object after the call and the call's outcome.                           *)

Outcome(self, ret) == [self |-> self, ret |-> ret]

Construct(nm, params) ==
  [name |-> nm, parameters |-> params, signals |-> <<>>,
   data |-> PyNone, initialized |-> FALSE]

get_parameter(self, key, default) ==
  IF key \in DOMAIN self.parameters THEN self.parameters[key] ELSE default

\* a variant that replaces the whole mapping by the one entry
set_parameter_replace(self, key, value) ==
  Outcome([self EXCEPT !.parameters = [k \in {key} |-> value]], Return(PyNone))

set_parameter(self, key, value) ==
  Outcome([self EXCEPT !.parameters =
             [k \in DOMAIN self.parameters \cup {key} |->
                IF k = key THEN value ELSE self.parameters[k]]],
          Return(PyNone))

initialize(self, d) ==
  Outcome([self EXCEPT !.data = d, !.initialized = TRUE], Return(PyNone))

\* a variant that forgets the volume
required_columns_no_volume == <<"Open", "High", "Low", "Close">>

required_columns == <<"Open", "High", "Low", "Close", "Volume">>

validate_data(self, d) ==
  Outcome(self,
          Return(\A k \in 1..Len(required_columns) :
                    required_columns[k] \in d.columns))

\* SignalType.value
SignalValue(type) ==
  IF type = "BUY" THEN 1 ELSE IF type = "SELL" THEN -1 ELSE 0

\* pd.DataFrame(): no columns, no rows
EmptyDataFrame == [columns |-> {}, index |-> <<>>, rows |-> <<>>]

get_signals_dataframe(self) ==
  IF self.signals = <<>> THEN Outcome(self, Return(EmptyDataFrame))
  ELSE Outcome(self,
         Return([columns |-> {"symbol", "signal", "strength", "price"},
                 index |-> [k \in DOMAIN self.signals |-> self.signals[k].timestamp],
                 rows |-> [k \in DOMAIN self.signals |->
                             [symbol |-> self.signals[k].symbol,
                              signal |-> SignalValue(self.signals[k].signal_type),
                              strength |-> self.signals[k].strength,
                              price |-> self.signals[k].price]]]))

performance_summary(self) ==
  LET signals_df == get_signals_dataframe(self).ret.value
      count(v) == Cardinality({k \in DOMAIN signals_df.rows :
                                 signals_df.rows[k].signal = v})
  IN  IF signals_df.rows = <<>> \/ signals_df.columns = {}
      THEN Outcome(self, Return([total_signals |-> 0]))
      ELSE IF self.data # PyNone /\ Len(self.data.close) = 0
      THEN Outcome(self, Raise("ZeroDivisionError"))
      ELSE Outcome(self,
             Return([total_signals |-> Len(signals_df.rows),
                     buy_signals |-> count(1),
                     sell_signals |-> count(-1),
                     signal_frequency |->
                       IF self.data # PyNone
                       THEN Num(Len(signals_df.rows), Len(self.data.close))
                       ELSE Num(0, 1)]))

-----------------------------------------------------------------------------
(* examples/basic_strategy_example.py: MovingAverageCrossover              *)

MovingAverageCrossover(short_window, long_window) ==
  Construct("MA Crossover",
            [k \in {"short_window", "long_window"} |->
               IF k = "short_window" THEN short_window ELSE long_window])

Signal(ts, type, price) ==
  [timestamp |-> ts, symbol |-> "AAPL", signal_type |-> type,
   strength |-> 1, price |-> price, metadata |-> PyNone]

\* the body of the loop at position i: the signals it appends
SignalsAt(close, short_ma, long_ma, i) ==
  LET current_short == iloc(short_ma, i)
      current_long == iloc(long_ma, i)
      prev_short == iloc(short_ma, i - 1)
      prev_long == iloc(long_ma, i - 1)
  IN  IF PyLe(prev_short, prev_long) /\ PyGt(current_short, current_long)
      THEN <<Signal(i, "BUY", iloc(close, i))>>
      ELSE IF PyGe(prev_short, prev_long) /\ PyLt(current_short, current_long)
      THEN <<Signal(i, "SELL", iloc(close, i))>>
      ELSE <<>>

\* for i in range(from, to)
RECURSIVE SignalLoop(_, _, _, _, _)
SignalLoop(close, short_ma, long_ma, from, to) ==
  IF from >= to THEN <<>>
  ELSE SignalsAt(close, short_ma, long_ma, from)
         \o SignalLoop(close, short_ma, long_ma, from + 1, to)

\* a variant that also keeps what it emits in self.signals
generate_signals_recording(self, d) ==
  LET short_window == get_parameter(self, "short_window", PyNone)
      long_window == get_parameter(self, "long_window", PyNone)
  IN  IF "Close" \notin d.columns THEN Outcome(self, Raise("KeyError"))
      ELSE
        LET short_ma == sma(d.close, short_window)
            long_ma == sma(d.close, long_window)
        IN  IF short_ma.kind = "raise" THEN Outcome(self, short_ma)
            ELSE IF long_ma.kind = "raise" THEN Outcome(self, long_ma)
            ELSE LET sigs == SignalLoop(d.close, short_ma.value, long_ma.value,
                                        long_window.v, Len(d.close))
                 IN  Outcome([self EXCEPT !.signals = self.signals \o sigs],
                             Return(sigs))

generate_signals(self, d) ==
  LET short_window == get_parameter(self, "short_window", PyNone)
      long_window == get_parameter(self, "long_window", PyNone)
  IN  IF "Close" \notin d.columns THEN Outcome(self, Raise("KeyError"))
      ELSE
        LET short_ma == sma(d.close, short_window)
            long_ma == sma(d.close, long_window)
        IN  IF short_ma.kind = "raise" THEN Outcome(self, short_ma)
            ELSE IF long_ma.kind = "raise" THEN Outcome(self, long_ma)
            ELSE Outcome(self,
                   Return(SignalLoop(d.close, short_ma.value, long_ma.value,
                                     long_window.v, Len(d.close))))

\* a variant that puts the new row first
concat_front(d, new_data) == Frame(d.columns, <<new_data>> \o d.close)

\* pd.concat([self.data, new_data.to_frame().T]): one more row
concat(d, new_data) == Frame(d.columns, Append(d.close, new_data))

\* data.tail(1): the last row, or no row of an empty frame
tail1(d) ==
  Frame(d.columns,
        IF Len(d.close) = 0 THEN <<>> ELSE <<d.close[Len(d.close)]>>)

\* a variant that binds the new record before it looks at the flag
update_late_check(self, new_data) ==
  IF ~self.initialized
  THEN Outcome([self EXCEPT !.data = Frame(OHLCV, <<new_data>>)], Raise(StateError))
  ELSE
    LET appended == [self EXCEPT !.data = concat(self.data, new_data)]
        gen == generate_signals(appended, tail1(appended.data))
    IN  IF gen.ret.kind = "raise" THEN gen
        ELSE Outcome(gen.self,
                     Return(IF gen.ret.value # <<>>
                            THEN gen.ret.value[1] ELSE PyNone))

update(self, new_data) ==
  IF ~self.initialized THEN Outcome(self, Raise(StateError))
  ELSE
    LET appended == [self EXCEPT !.data = concat(self.data, new_data)]
        gen == generate_signals(appended, tail1(appended.data))
    IN  IF gen.ret.kind = "raise" THEN gen
        ELSE Outcome(gen.self,
                     Return(IF gen.ret.value # <<>>
                            THEN gen.ret.value[1] ELSE PyNone))

-----------------------------------------------------------------------------
(* quantpak/data/storage.py: CacheManager                                  *)
(* A method is an operator from the directory content and its arguments to *)
(* the content after the call and the call's outcome.                      *)

NoFiles == [f \in {} |-> PyNone]

\* self.cache_dir / f"{key}.pkl"
cache_file(key) == [stem |-> key.v, suffix |-> ".pkl"]

\* pickle.dump and pickle.load
Pickle(obj) == [pickled |-> obj]
Unpickle(bytes) == bytes.pickled

\* the truth value of an Optional[str]: None and "" are false
Truthy(x) == x.t = "str" /\ x.v # ""

\* self.cache_dir.glob("*.pkl")
GlobPkl(dir) == {f \in DOMAIN dir : f.suffix = ".pkl"}

Unlink(dir, files) == [f \in DOMAIN dir \ files |-> dir[f]]

cache_get(dir, key) ==
  IF cache_file(key) \in DOMAIN dir
  THEN Outcome(dir, Return(Unpickle(dir[cache_file(key)])))
  ELSE Outcome(dir, Return(PyNone))

cache_set(dir, key, blob) ==
  Outcome([f \in DOMAIN dir \cup {cache_file(key)} |->
             IF f = cache_file(key) THEN Pickle(blob) ELSE dir[f]],
          Return(PyNone))

cache_clear(dir, key) ==
  IF Truthy(key)
  THEN IF cache_file(key) \in DOMAIN dir
       THEN Outcome(Unlink(dir, {cache_file(key)}), Return(PyNone))
       ELSE Outcome(dir, Return(PyNone))
  ELSE Outcome(Unlink(dir, GlobPkl(dir)), Return(PyNone))

-----------------------------------------------------------------------------
(* The strategy object and its callers *)

Self ==
  [name |-> name, parameters |-> parameters, signals |-> signals,
   data |-> data, initialized |-> initialized]

Becomes(self) ==
  /\ name' = self.name
  /\ parameters' = self.parameters
  /\ signals' = self.signals
  /\ data' = self.data
  /\ initialized' = self.initialized

RECURSIVE SeqsUpTo(_, _)
SeqsUpTo(S, n) ==
  IF n = 0 THEN {<<>>}
  ELSE LET shorter == SeqsUpTo(S, n - 1)
       IN  shorter \cup {Append(s, x) : s \in {t \in shorter : Len(t) = n - 1}, x \in S}

LifeFrames == {Frame(OHLCV, s) : s \in SeqsUpTo(LifePrices, MaxLen)}
LifeWindows == {PyNone} \cup {PyInt(n) : n \in -1..MaxLifeWindow}

ScenarioPrices == <<10, 10, 10, 10, 10, 9, 11, 13, 15, 17>>
PureFrames ==
  {Frame(OHLCV, s) : s \in SeqsUpTo(PurePrices, MaxPureLen) \cup {ScenarioPrices}}
PureWindows == {PyNone} \cup {PyInt(n) : n \in -1..MaxWindow}

\* the column sets validate_data is given: all five fields, one more, one
\* fewer (each field in turn), none
ColumnSets ==
  {OHLCV, OHLCV \cup {"Adj Close"}, {}} \cup {OHLCV \ {c} : c \in OHLCV}

Is(self) ==
  /\ name = self.name
  /\ parameters = self.parameters
  /\ signals = self.signals
  /\ data = self.data
  /\ initialized = self.initialized

\* the state after construction
Init ==
  /\ \E sw \in LifeWindows, lw \in LifeWindows : Is(MovingAverageCrossover(sw, lw))
  /\ op = "construct"
  /\ arg = PyNone
  /\ result = Return(PyNone)
  /\ cache_dir = NoFiles

Initialize(d) ==
  \E out \in {initialize(Self, d)} :
      /\ Becomes(out.self)
      /\ op' = "initialize"
      /\ arg' = d
      /\ result' = out.ret
      /\ UNCHANGED cache_dir

\* the bound series is kept within MaxLen rows
Update(new_data) ==
  \E out \in {update(Self, new_data)} :
      /\ data # PyNone => Len(data.close) < MaxLen
      /\ Becomes(out.self)
      /\ op' = "update"
      /\ arg' = new_data
      /\ result' = out.ret
      /\ UNCHANGED cache_dir

GenerateSignals(d) ==
  \E out \in {generate_signals(Self, d)} :
      /\ Becomes(out.self)
      /\ op' = "generate_signals"
      /\ arg' = d
      /\ result' = out.ret
      /\ UNCHANGED cache_dir

SetParameter(key, value) ==
  \E out \in {set_parameter(Self, key, value)} :
      /\ Becomes(out.self)
      /\ op' = "set_parameter"
      /\ arg' = <<key, value>>
      /\ result' = out.ret
      /\ UNCHANGED cache_dir

ValidateData(d) ==
  \E out \in {validate_data(Self, d)} :
      /\ Becomes(out.self)
      /\ op' = "validate_data"
      /\ arg' = d
      /\ result' = out.ret
      /\ UNCHANGED cache_dir

GetSignalsDataframe ==
  \E out \in {get_signals_dataframe(Self)} :
      /\ Becomes(out.self)
      /\ op' = "get_signals_dataframe"
      /\ arg' = PyNone
      /\ result' = out.ret
      /\ UNCHANGED cache_dir

PerformanceSummary ==
  \E out \in {performance_summary(Self)} :
      /\ Becomes(out.self)
      /\ op' = "performance_summary"
      /\ arg' = PyNone
      /\ result' = out.ret
      /\ UNCHANGED cache_dir

Next ==
  \/ \E d \in LifeFrames : Initialize(d)
  \/ \E x \in LifePrices : Update(x)
  \/ \E d \in LifeFrames : GenerateSignals(d)
  \/ \E k \in {"short_window", "long_window"}, v \in LifeWindows : SetParameter(k, v)
  \/ \E cs \in ColumnSets : ValidateData(Frame(cs, <<>>))
  \/ GetSignalsDataframe
  \/ PerformanceSummary

Spec == Init /\ [][Next]_vars

-----------------------------------------------------------------------------
(* The pure functions on their own: a caller constructs a strategy, holds  *)
(* a frame (arg) and makes one call on it.                                 *)

InitPure ==
  /\ \E sw \in PureWindows, lw \in PureWindows : Is(MovingAverageCrossover(sw, lw))
  /\ op = "construct"
  /\ arg \in PureFrames
  /\ result = Return(PyNone)
  /\ cache_dir = NoFiles

Sma(prices, window) ==
  /\ op' = "sma"
  /\ arg' = [prices |-> prices, window |-> window]
  /\ result' = sma(prices, window)
  /\ UNCHANGED <<strategy, cache_dir>>

Ema(prices, window) ==
  /\ Len(prices) <= MaxPureLen
  /\ op' = "ema"
  /\ arg' = [prices |-> prices, window |-> window]
  /\ result' = ema(prices, window)
  /\ UNCHANGED <<strategy, cache_dir>>

\* the round trip from prices to simple returns and back to cumulative ones
CumulativeReturns(prices) ==
  /\ Len(prices) <= MaxPureLen
  /\ op' = "cumulative_returns"
  /\ arg' = [prices |-> prices]
  /\ result' = Return(cumulative_returns(simple_returns(prices)))
  /\ UNCHANGED <<strategy, cache_dir>>

NextPure ==
  \/ op = "construct" /\ GenerateSignals(arg)
  \/ op = "construct" /\ \E w \in PureWindows : Sma(arg.close, w)
  \/ op = "construct" /\ \E w \in PureWindows : Ema(arg.close, w)
  \/ op = "construct" /\ CumulativeReturns(arg.close)

SpecPure == InitPure /\ [][NextPure]_vars

-----------------------------------------------------------------------------
(* The cache on its own: set, get and clear in any order on a directory    *)
(* that starts empty.                                                      *)

CacheKeys == {PyStr(""), PyStr("a"), PyStr("b")}
Blobs == {PyInt(n) : n \in 1..MaxBlob}

InitCache ==
  /\ Is(MovingAverageCrossover(PyInt(20), PyInt(50)))
  /\ op = "construct"
  /\ arg = PyNone
  /\ result = Return(PyNone)
  /\ cache_dir = NoFiles

CacheGet(key) ==
  \E out \in {cache_get(cache_dir, key)} :
      /\ cache_dir' = out.self
      /\ op' = "cache_get"
      /\ arg' = key
      /\ result' = out.ret
      /\ UNCHANGED strategy

CacheSet(key, blob) ==
  \E out \in {cache_set(cache_dir, key, blob)} :
      /\ cache_dir' = out.self
      /\ op' = "cache_set"
      /\ arg' = [key |-> key, data |-> blob]
      /\ result' = out.ret
      /\ UNCHANGED strategy

CacheClear(key) ==
  \E out \in {cache_clear(cache_dir, key)} :
      /\ cache_dir' = out.self
      /\ op' = "cache_clear"
      /\ arg' = key
      /\ result' = out.ret
      /\ UNCHANGED strategy

NextCache ==
  \/ \E k \in CacheKeys : CacheGet(k)
  \/ \E k \in CacheKeys, b \in Blobs : CacheSet(k, b)
  \/ \E k \in CacheKeys \cup {PyNone} : CacheClear(k)

SpecCache == InitCache /\ [][NextCache]_vars

-----------------------------------------------------------------------------
(* Reference definitions for the properties: window means taken directly   *)
(* from the prices, compared as fractions.                                 *)

Ws == parameters["short_window"]
Wl == parameters["long_window"]
IsWindow(w) == w.t = "int" /\ w.v >= 1

\* s[lo] + ... + s[hi], positions counted from 0
RECURSIVE SumRange(_, _, _)
SumRange(s, lo, hi) == IF lo > hi THEN 0 ELSE s[hi + 1] + SumRange(s, lo, hi - 1)

WindowSum(s, i, w) == SumRange(s, i - w + 1, i)
Populated(i, w) == i - w + 1 >= 0

\* mean(s[i-a+1..i]) compared with mean(s[i-b+1..i])
MeanLt(s, i, a, b) == WindowSum(s, i, a) * b < WindowSum(s, i, b) * a
MeanGt(s, i, a, b) == WindowSum(s, i, a) * b > WindowSum(s, i, b) * a
MeanLe(s, i, a, b) == ~MeanGt(s, i, a, b)
MeanGe(s, i, a, b) == ~MeanLt(s, i, a, b)

UpCross(s, i, a, b) == MeanLe(s, i - 1, a, b) /\ MeanGt(s, i, a, b)
DownCross(s, i, a, b) == MeanGe(s, i - 1, a, b) /\ MeanLt(s, i, a, b)

Emitted(sigs, type, i) ==
  \E k \in DOMAIN sigs : sigs[k].signal_type = type /\ sigs[k].timestamp = i
EmittedAt(sigs, i) == \E k \in DOMAIN sigs : sigs[k].timestamp = i

\* what the crossover rule says about position i of the whole series s:
\* nothing before the long window has passed or while a compared mean is
\* undefined, else Buy on an upward cross and Sell on a downward cross
RuleAt(s, i, a, b) ==
  IF i < b \/ i >= Len(s) \/ ~Populated(i - 1, a) \/ ~Populated(i - 1, b) THEN "NONE"
  ELSE IF UpCross(s, i, a, b) THEN "BUY"
  ELSE IF DownCross(s, i, a, b) THEN "SELL"
  ELSE "NONE"

-----------------------------------------------------------------------------
(* C1: update on a strategy that was never initialized fails with the      *)
(* state error and leaves name, parameters, bound series, initialized flag *)
(* and stored signals as they were.                                        *)
C1_UpdateBeforeInitialize ==
  [][(op' = "update" /\ ~initialized) =>
       (result' = Raise(StateError) /\ UNCHANGED strategy)]_vars

C1_Witness ==
  op = "update" /\ ~initialized /\ data = PyNone /\ result = Raise(StateError)

-----------------------------------------------------------------------------
(* C2: update on an initialized strategy returns the signal the crossover  *)
(* rule emits for the new record's position when evaluated over the whole  *)
(* bound series, and None exactly when the rule emits nothing there.       *)
C2_UpdateReturnsRuleSignal ==
  (op = "update" /\ result.kind = "return" /\ IsWindow(Ws) /\ IsWindow(Wl)) =>
    LET s == data.close
        i == Len(s) - 1
        rule == RuleAt(s, i, Ws.v, Wl.v)
    IN  result.value = IF rule = "NONE" THEN PyNone ELSE Signal(i, rule, iloc(s, i))

-----------------------------------------------------------------------------
(* C3: with windows Ws < Wl, at every position i with Wl <= i < len the    *)
(* strategy emits a Buy iff SMA_s[i-1] <= SMA_l[i-1] and SMA_s[i] >        *)
(* SMA_l[i], a Sell iff SMA_s[i-1] >= SMA_l[i-1] and SMA_s[i] < SMA_l[i],  *)
(* and nothing otherwise; every signal carries the Close at its position   *)
(* and strength 1.0.                                                       *)
C3_CrossoverRule ==
  (op = "generate_signals" /\ IsWindow(Ws) /\ IsWindow(Wl) /\ Ws.v < Wl.v) =>
    /\ result.kind = "return"
    /\ LET s == arg.close
           sigs == result.value
       IN  /\ \A i \in Wl.v..(Len(s) - 1) :
                /\ Emitted(sigs, "BUY", i) <=> UpCross(s, i, Ws.v, Wl.v)
                /\ Emitted(sigs, "SELL", i) <=> DownCross(s, i, Ws.v, Wl.v)
                /\ (~UpCross(s, i, Ws.v, Wl.v) /\ ~DownCross(s, i, Ws.v, Wl.v))
                     => ~EmittedAt(sigs, i)
           /\ \A k \in DOMAIN sigs :
                /\ sigs[k].price = iloc(s, sigs[k].timestamp)
                /\ sigs[k].strength = 1

C3_Witness ==
  /\ op = "generate_signals" /\ IsWindow(Ws) /\ IsWindow(Wl) /\ Ws.v < Wl.v
  /\ result.kind = "return"
  /\ \E i, j \in Wl.v..(Len(arg.close) - 1) :
       Emitted(result.value, "BUY", i) /\ Emitted(result.value, "SELL", j)
  /\ \E i \in Wl.v..(Len(arg.close) - 1) : ~EmittedAt(result.value, i)

-----------------------------------------------------------------------------
(* C4: for any two positive windows, also Ws >= Wl, every emitted signal   *)
(* sits at a position where the short and the long window are both fully   *)
(* populated at that position and at the one before it.                    *)
C4_SignalsOnlyWherePopulated ==
  (op = "generate_signals" /\ IsWindow(Ws) /\ IsWindow(Wl)) =>
    /\ result.kind = "return"
    /\ \A k \in DOMAIN result.value :
         LET i == result.value[k].timestamp
         IN  /\ i < Len(arg.close)
             /\ Populated(i, Ws.v) /\ Populated(i - 1, Ws.v)
             /\ Populated(i, Wl.v) /\ Populated(i - 1, Wl.v)

C4_Witness ==
  /\ op = "generate_signals" /\ IsWindow(Ws) /\ IsWindow(Wl) /\ Ws.v > Wl.v
  /\ result.kind = "return" /\ result.value # <<>>
  /\ Len(arg.close) > Ws.v

-----------------------------------------------------------------------------
(* C5: generate_signals leaves name, parameters, bound series, initialized *)
(* flag and stored signals unchanged, and what it returns depends on the   *)
(* frame and the parameters alone: whatever was bound, initialized or      *)
(* generated before, the call returns what a freshly constructed strategy  *)
(* with the same parameters returns for that frame, so a re-run on the     *)
(* same series gives the same sequence.                                    *)
C5_GenerateSignalsPure ==
  [][op' = "generate_signals" =>
       /\ UNCHANGED <<strategy, cache_dir>>
       /\ result' = generate_signals(MovingAverageCrossover(Ws, Wl), arg').ret]_vars

C5_Witness ==
  /\ op = "generate_signals" /\ initialized /\ data # arg
  /\ result.kind = "return" /\ result.value # <<>>

-----------------------------------------------------------------------------
(* C6: on Close = [10,10,10,10,10,9,11,13,15,17] with Ws = 2 and Wl = 4    *)
(* the short average crosses above the long one exactly once, and exactly  *)
(* one Buy is emitted: at the first position where SMA2 exceeds SMA4, with *)
(* the Close of that position as price and strength 1.0.                   *)
C6_ScenarioOneBuy ==
  (op = "generate_signals" /\ arg.close = ScenarioPrices
     /\ Ws = PyInt(2) /\ Wl = PyInt(4)) =>
    /\ result.kind = "return"
    /\ LET s == ScenarioPrices
           sigs == result.value
           last == Len(s) - 1
           buys == {k \in DOMAIN sigs : sigs[k].signal_type = "BUY"}
           ups == {i \in 4..last : UpCross(s, i, 2, 4)}
           first == CHOOSE i \in 3..last :
                      /\ MeanGt(s, i, 2, 4)
                      /\ \A j \in 3..(i - 1) : ~MeanGt(s, j, 2, 4)
       IN  /\ Cardinality(ups) = 1
           /\ Cardinality(buys) = 1
           /\ \A k \in buys :
                /\ sigs[k].timestamp = first
                /\ sigs[k].price = iloc(s, first)
                /\ sigs[k].strength = 1

C6_Witness ==
  /\ op = "generate_signals" /\ arg.close = ScenarioPrices
  /\ Ws = PyInt(2) /\ Wl = PyInt(4)
  /\ result.kind = "return"
  /\ \E k \in DOMAIN result.value : result.value[k] = Signal(7, "BUY", 13)

-----------------------------------------------------------------------------
(* C7: on a series shorter than the long window, the empty series too,     *)
(* generate_signals returns the empty sequence and does not raise.         *)
C7_ShortSeriesNoSignals ==
  (op = "generate_signals" /\ IsWindow(Ws) /\ IsWindow(Wl)
     /\ Len(arg.close) < Wl.v) =>
    result = Return(<<>>)

C7_Witness ==
  /\ op = "generate_signals" /\ IsWindow(Ws) /\ IsWindow(Wl)
  /\ Len(arg.close) = Wl.v - 1 /\ Ws.v < Len(arg.close)
  /\ result = Return(<<>>)

-----------------------------------------------------------------------------
(* C8: validate_data returns true iff Open, High, Low, Close and Volume    *)
(* are all among the columns of the frame, false (no exception) when one   *)
(* is missing, and leaves the strategy as it was.                          *)
C8_ValidateData ==
  [][op' = "validate_data" =>
       /\ result' = Return(/\ "Open" \in arg'.columns
                           /\ "High" \in arg'.columns
                           /\ "Low" \in arg'.columns
                           /\ "Close" \in arg'.columns
                           /\ "Volume" \in arg'.columns)
       /\ UNCHANGED strategy]_vars

C8_Witness ==
  /\ op = "validate_data" /\ initialized
  /\ arg.columns = {"Open", "High", "Low", "Close"}
  /\ result = Return(FALSE)

-----------------------------------------------------------------------------
(* C9: generate_signals with a window parameter that is absent (read as    *)
(* None) or not positive fails with the configuration error, whatever      *)
(* exception class stands for it, and returns no signal sequence.          *)
C9_BadParameterRaises ==
  (op = "generate_signals" /\ (~IsWindow(Ws) \/ ~IsWindow(Wl))) =>
    result.kind = "raise"

-----------------------------------------------------------------------------
(* C10: for a window W >= 1 and a series of length n >= W, sma has length  *)
(* n, is undefined at every position before W-1 and from W-1 on equals the *)
(* mean of the W prices ending at the position.                            *)
C10_SmaWindow ==
  (op = "sma" /\ IsWindow(arg.window) /\ Len(arg.prices) >= arg.window.v) =>
    /\ result.kind = "return"
    /\ Len(result.value) = Len(arg.prices)
    /\ \A i \in 0..(Len(arg.prices) - 1) :
         LET x == iloc(result.value, i)
             w == arg.window.v
         IN  IF i < w - 1 THEN x = NaN
             ELSE /\ x.t = "num"
                  /\ x.num * w = WindowSum(arg.prices, i, w) * x.den

C10_Witness ==
  /\ op = "sma" /\ IsWindow(arg.window) /\ arg.window.v >= 2
  /\ Len(arg.prices) > arg.window.v + 1
  /\ result.kind = "return"
  /\ result.value[1] = NaN
  /\ result.value[Len(arg.prices)].t = "num"
  /\ \E i, j \in DOMAIN arg.prices : arg.prices[i] # arg.prices[j]

-----------------------------------------------------------------------------
(* C11: for a span S >= 1, ema equals the recursion out[0] = in[0],        *)
(* out[i] = a*in[i] + (1-a)*out[i-1] with a = 2/(S+1), at every position.  *)

\* the recursion, scaled by (S+1)^t
RECURSIVE RecursiveEma(_, _, _)
RecursiveEma(prices, span, t) ==
  IF t = 0 THEN iloc(prices, 0)
  ELSE 2 * iloc(prices, t) * (span + 1)^(t - 1)
         + (span - 1) * RecursiveEma(prices, span, t - 1)

C11_EmaIsRecursion ==
  (op = "ema" /\ IsWindow(arg.window)) =>
    /\ result.kind = "return"
    /\ Len(result.value) = Len(arg.prices)
    /\ \A t \in 0..(Len(arg.prices) - 1) :
         LET x == iloc(result.value, t)
             s == arg.window.v
         IN  x.num * (s + 1)^t = RecursiveEma(arg.prices, s, t) * x.den

-----------------------------------------------------------------------------
(* C12: for positive prices, cumulative_returns(simple_returns(prices))    *)
(* equals prices / prices[0] - 1 at every position, position 0 included.   *)
C12_RoundTripEverywhere ==
  op = "cumulative_returns" =>
    \A i \in 0..(Len(arg.prices) - 1) :
      LET x == iloc(result.value, i)
          p == arg.prices
      IN  /\ x.t = "num"
          /\ x.num * p[1] = (iloc(p, i) - p[1]) * x.den

(* C12 as amended: it equals prices / prices[0] - 1 at every position from *)
(* 1 on, and has no value (NaN) at position 0.                             *)
C12_RoundTripAfterFirst ==
  op = "cumulative_returns" =>
    /\ Len(result.value) = Len(arg.prices)
    /\ \A i \in 0..(Len(arg.prices) - 1) :
         LET x == iloc(result.value, i)
             p == arg.prices
         IN  IF i = 0 THEN x = NaN
             ELSE /\ x.t = "num"
                  /\ x.num * p[1] = (iloc(p, i) - p[1]) * x.den

C12_Witness ==
  /\ op = "cumulative_returns" /\ Len(arg.prices) >= 3
  /\ arg.prices[1] # arg.prices[2] /\ arg.prices[2] # arg.prices[3]
  /\ result.value[1] = NaN
  /\ result.value[3].t = "num"

-----------------------------------------------------------------------------
(* C16: the emitted signals are in strictly increasing position order, at  *)
(* most one per position and never Hold; two consecutive signals have the  *)
(* same direction only if the short and the long average were exactly      *)
(* equal at a position between them, so without ties Buy and Sell          *)
(* alternate.                                                              *)
Tie(s, m, a, b) ==
  /\ Populated(m, a) /\ Populated(m, b)
  /\ WindowSum(s, m, a) * b = WindowSum(s, m, b) * a

C16_SignalOrder ==
  (op = "generate_signals" /\ IsWindow(Ws) /\ IsWindow(Wl)) =>
    /\ result.kind = "return"
    /\ LET s == arg.close
           sigs == result.value
       IN  /\ \A k \in DOMAIN sigs : sigs[k].signal_type \in {"BUY", "SELL"}
           /\ \A k \in 1..(Len(sigs) - 1) :
                /\ sigs[k].timestamp < sigs[k + 1].timestamp
                /\ sigs[k].signal_type = sigs[k + 1].signal_type =>
                     \E m \in (sigs[k].timestamp + 1)..(sigs[k + 1].timestamp - 1) :
                        Tie(s, m, Ws.v, Wl.v)
           /\ (\A m \in 0..(Len(s) - 1) : ~Tie(s, m, Ws.v, Wl.v)) =>
                \A k \in 1..(Len(sigs) - 1) :
                   sigs[k].signal_type # sigs[k + 1].signal_type

C16_Witness ==
  /\ op = "generate_signals" /\ IsWindow(Ws) /\ IsWindow(Wl)
  /\ result.kind = "return" /\ Len(result.value) >= 2
  /\ result.value[1].signal_type = result.value[2].signal_type

C16_WitnessAlternate ==
  /\ op = "generate_signals" /\ IsWindow(Ws) /\ IsWindow(Wl)
  /\ result.kind = "return" /\ Len(result.value) >= 2
  /\ \A m \in 0..(Len(arg.close) - 1) : ~Tie(arg.close, m, Ws.v, Wl.v)

-----------------------------------------------------------------------------
(* C13: initialize binds the frame it is given and every update after it   *)
(* appends exactly one record, the new one, behind the records already     *)
(* bound, changing neither the parameters nor the initialized flag; no     *)
(* other call touches the bound series.  So after initialize(n records)    *)
(* and k updates the series is the n records followed by the k new ones in *)
(* call order.                                                             *)
C13_UpdateAppends ==
  [][/\ op' = "initialize" => data' = arg'
     /\ (op' = "update" /\ initialized) =>
          /\ data'.close = Append(data.close, arg')
          /\ Len(data'.close) = Len(data.close) + 1
          /\ data'.columns = data.columns
          /\ parameters' = parameters
          /\ initialized' = initialized
     /\ (op' = "update" /\ ~initialized) => data' = data
     /\ op' \notin {"initialize", "update"} => data' = data]_vars

C13_Witness ==
  /\ op = "update" /\ initialized /\ result.kind = "return"
  /\ Len(data.close) >= 3
  /\ data.close[1] # data.close[Len(data.close)]
  /\ arg = data.close[Len(data.close)]

-----------------------------------------------------------------------------
(* C14: the initialized flag is false after construction, becomes true     *)
(* only by initialize, which always sets it, and never reverts; whenever   *)
(* it is true a series is bound; set_parameter changes the one named       *)
(* parameter and nothing else.                                             *)
C14_InitializedLifecycle ==
  /\ ~initialized
  /\ [](initialized => data # PyNone)
  /\ [][/\ initialized => initialized'
        /\ (~initialized /\ initialized') => op' = "initialize"
        /\ op' = "initialize" => initialized'
        /\ op' = "set_parameter" =>
             /\ DOMAIN parameters' = DOMAIN parameters \cup {arg'[1]}
             /\ parameters'[arg'[1]] = arg'[2]
             /\ \A k \in DOMAIN parameters \ {arg'[1]} :
                  parameters'[k] = parameters[k]
             /\ UNCHANGED <<name, signals, data, initialized>>]_vars

C14_Witness ==
  /\ op = "set_parameter" /\ initialized /\ data # PyNone
  /\ arg[1] = "short_window" /\ Ws = arg[2] /\ Wl # Ws

-----------------------------------------------------------------------------
(* C17: nothing ever adds to the stored signals, so performance_summary    *)
(* returns exactly {total_signals: 0} and get_signals_dataframe is empty,  *)
(* whatever generate_signals and update returned before.                   *)
C17_NoStoredSignals ==
  /\ signals = <<>>
  /\ op = "performance_summary" => result = Return([total_signals |-> 0])
  /\ op = "get_signals_dataframe" =>
       /\ result.kind = "return"
       /\ result.value.rows = <<>>
       /\ result.value.columns = {}

C17_Witness ==
  /\ op = "performance_summary" /\ initialized /\ Len(data.close) >= 2
  /\ result = Return([total_signals |-> 0])

-----------------------------------------------------------------------------
(* C15: the cache behaves as a map from keys to blobs: set(k, v) makes     *)
(* get(k) return v and changes no other key, clear(k) with a key makes     *)
(* get(k) return None and changes no other key, clear() empties the map,   *)
(* and get returns the entry and changes nothing; for every string key.    *)
Entry(dir, key) == cache_get(dir, key).ret.value

C15_CacheIsMap ==
  [][/\ op' = "cache_set" =>
          \A k \in CacheKeys :
             Entry(cache_dir', k) =
               IF k = arg'.key THEN arg'.data ELSE Entry(cache_dir, k)
     /\ (op' = "cache_clear" /\ arg' # PyNone) =>
          \A k \in CacheKeys :
             Entry(cache_dir', k) =
               IF k = arg' THEN PyNone ELSE Entry(cache_dir, k)
     /\ (op' = "cache_clear" /\ arg' = PyNone) =>
          \A k \in CacheKeys : Entry(cache_dir', k) = PyNone
     /\ op' = "cache_get" =>
          /\ result' = Return(Entry(cache_dir, arg'))
          /\ \A k \in CacheKeys : Entry(cache_dir', k) = Entry(cache_dir, k)]_vars

====
